---------------------------- MODULE Spec2Model ----------------------------
(***************************************************************************)
(* A model of chefs-embed's plugin-scoped token refresh subsystem:         *)
(*   - the plugin registry            (src/utils/plugin-registry.js)       *)
(*   - the refresh endpoint           (src/routes/auth-refresh.js)         *)
(*   - the page routes                (src/index.js)                       *)
(*   - the browser refresh scheduler  (src/public/lib/user-token-refresh.js)*)
(*                                                                         *)
(* JavaScript values are encoded as follows.                               *)
(*   - a string-or-undefined field is a TLA+ string, `undefined` being the *)
(*     reserved string Undefined;                                          *)
(*   - a token (an access, refresh or id token) is the sequence of the     *)
(*     segments that String.split(".") yields, so a JWT has three          *)
(*     segments, an opaque token one; `undefined` is the empty sequence    *)
(*     (split never yields zero segments);                                 *)
(*   - an optional number is a set holding at most one number;             *)
(*   - null / undefined where an object is expected is the record Null.    *)
(***************************************************************************)
EXTENDS Naturals, Integers, Sequences, FiniteSets, TLC

VARIABLES
    \* ---- plugin registry (src/utils/plugin-registry.js)
    pluginsDir,     \* the plugin directory on disk: readable?, entries
    registry,       \* Map slug -> manifest + modulePath
    loadPc,         \* position of loadPluginRegistry: idle, readdir, import, done
    jsFiles,        \* the names of the .js files loadPluginRegistry has still to import
    moduleCache,    \* the process's ES module map: file name -> module once imported
    loadResult,     \* the promise loadPluginRegistry returned: none, pending, resolved, rejected
    query,          \* the last registry read and what it returned
    \* ---- server (src/index.js, src/routes/auth-refresh.js)
    listening,      \* app.listen has been called
    sessions,       \* session id -> [authenticated, user]
    reqs,           \* request slot -> the refresh request being handled in it
    served,         \* the number of refresh requests received so far
    provider,       \* the OIDC provider: the refresh tokens it accepts, grants seen
    rendered,       \* what the last page route handed to res.render
    \* ---- browser scheduler (src/public/lib/user-token-refresh.js)
    inst,           \* the UserTokenRefresh instance (or none yet)
    viewer,         \* the chefs-form-viewer element: listeners, tokens pushed
    net,            \* the fetch calls the browser has issued, in order
    calls           \* calls made on the scheduler: bind() count, what
                    \* initUserTokenRefresh returned, the runs of _handleExpiring

regVars == <<pluginsDir, registry, loadPc, jsFiles, moduleCache, loadResult, query>>
srvVars == <<listening, sessions, reqs, served, provider, rendered>>
cliVars == <<inst, viewer, net, calls>>
vars == <<pluginsDir, registry, loadPc, jsFiles, moduleCache, loadResult, query,
          listening, sessions, reqs, served, provider, rendered,
          inst, viewer, net, calls>>

-----------------------------------------------------------------------------
(* JavaScript values *)

Undefined == "<undefined>"
Null == [null |-> TRUE]
NoToken == << >>

\* !!s for a string-or-undefined value
Truthy(s) == s # Undefined /\ s # ""

\* !!t for a token-or-undefined value
TokenTruthy(t) == t # NoToken /\ t # <<"">>

\* !!n for an optional number
NumTruthy(n) == n # {} /\ n # {0}

-----------------------------------------------------------------------------
(* Bounds of the model *)

\* the most entries a plugin directory holds
MaxFiles == 2

-----------------------------------------------------------------------------
(* Host configuration: src/config.js *)

keycloakTokenURL == "http://localhost:7777/realms/chefs-embed/protocol/openid-connect/token"
keycloakClientID == "express-app"

-----------------------------------------------------------------------------
(* Plugin manifests *)

\* tokenRefresh.oidc: undefined, a string ("host" or anything else), or an object
\* whose tokenEndpoint and clientId may each be missing or empty.
OidcUndefined == [kind |-> "undefined", str |-> Undefined,
                  tokenEndpoint |-> Undefined, clientId |-> Undefined]
OidcString(s) == [kind |-> "string", str |-> s,
                  tokenEndpoint |-> Undefined, clientId |-> Undefined]
OidcObject(te, cid) == [kind |-> "object", str |-> Undefined,
                        tokenEndpoint |-> te, clientId |-> cid]

TokenEndpoints == {Undefined, "", "https://idp.example/token"}
ClientIds == {Undefined, "", "pub"}
OidcRefs == {OidcUndefined, OidcString("host"), OidcString("keycloak"), OidcString("")}
            \cup {OidcObject(te, cid) : te \in TokenEndpoints, cid \in ClientIds}
Buffers == {{}, {0}, {30}}

NoTokenRefresh == [present |-> FALSE, oidc |-> OidcUndefined, buffer |-> {}]
TokenRefreshBlocks ==
    {NoTokenRefresh} \cup
    {[present |-> TRUE, oidc |-> o, buffer |-> b] : o \in OidcRefs, b \in Buffers}

Slugs == {"demo", "other"}
ManifestSlugs == Slugs \cup {Undefined, ""}
FormIds == {"form-1", "form-2"}

Manifests ==
    {[slug |-> s, formId |-> f, tokenRefresh |-> tr] :
        s \in ManifestSlugs, f \in FormIds, tr \in TokenRefreshBlocks}

\* the manifests the registry-loading specification draws its modules from
HostBlock == [present |-> TRUE, oidc |-> OidcString("host"), buffer |-> {}]
FewManifests ==
    {[slug |-> s, formId |-> "form-1", tokenRefresh |-> tr] :
        s \in ManifestSlugs, tr \in {NoTokenRefresh, HostBlock}}

-----------------------------------------------------------------------------
(* The plugin directory *)

\* A file name is <<stem, extension>>; String.endsWith(".js") looks at the end.
FileName(i, ext) == <<i, ext>>
EndsWithJs(name) == name[Len(name)] = ".js"

\* What import() of a file does: throws, or yields a module whose `manifest`
\* export is missing or is a manifest.
ModuleThrows == [kind |-> "throws", manifest |-> Null]
ModuleNoManifest == [kind |-> "nomanifest", manifest |-> Null]
ModuleWith(m) == [kind |-> "manifest", manifest |-> m]
ModulesOf(ms) == {ModuleThrows, ModuleNoManifest} \cup {ModuleWith(m) : m \in ms}

FilesAt(i, ms) ==
    {[name |-> FileName(i, ".js"), module |-> mod] : mod \in ModulesOf(ms)}
    \cup {[name |-> FileName(i, ".md"), module |-> ModuleThrows]}

RECURSIVE DirEntries(_, _)
\* every listing of exactly n entries, the i-th named after its position
DirEntries(n, ms) ==
    IF n = 0 THEN {<< >>}
    ELSE {Append(d, f) : d \in DirEntries(n - 1, ms), f \in FilesAt(n, ms)}

Dirs(ms) ==
    {[readable |-> FALSE, entries |-> << >>]} \cup
    {[readable |-> TRUE, entries |-> d] :
        d \in UNION {DirEntries(n, ms) : n \in 0..MaxFiles}}

-----------------------------------------------------------------------------
(* src/utils/plugin-registry.js *)

EmptyRegistry == [s \in {} |-> Null]

\* registry.set(manifest.slug, {...manifest, modulePath})
RegistryEntry(manifest, modulePath) ==
    [slug |-> manifest.slug, formId |-> manifest.formId,
     tokenRefresh |-> manifest.tokenRefresh, modulePath |-> modulePath]

\* a set that keeps the value a key already has
MapSetKeepFirst(map, key, value) ==
    [k \in DOMAIN map \cup {key} |->
        IF k \in DOMAIN map THEN map[k] ELSE value]

MapSet(map, key, value) ==
    [k \in DOMAIN map \cup {key} |-> IF k = key THEN value ELSE map[k]]

getPluginIn(reg, slug) == IF slug \in DOMAIN reg THEN reg[slug] ELSE Null
getPlugin(slug) == getPluginIn(registry, slug)

getAllPlugins == {registry[s] : s \in DOMAIN registry}

\* plugin?.tokenRefresh?.oidc
OidcOf(plugin) ==
    IF plugin = Null \/ ~plugin.tokenRefresh.present THEN OidcUndefined
    ELSE plugin.tokenRefresh.oidc

\* !!oidc: undefined and "" are falsy, every other string and every object is truthy
OidcTruthy(oidc) ==
    \/ oidc.kind = "object"
    \/ oidc.kind = "string" /\ Truthy(oidc.str)

\* a predicate accepting every truthy tokenRefresh.oidc
hasTokenRefreshAnyOidc(plugin) == OidcTruthy(OidcOf(plugin))

hasTokenRefresh(plugin) ==
    LET oidc == OidcOf(plugin) IN
    IF oidc.kind = "string" /\ oidc.str = "host" THEN TRUE
    ELSE Truthy(oidc.tokenEndpoint) /\ Truthy(oidc.clientId)

getPluginsWithTokenRefresh == {p \in getAllPlugins : hasTokenRefresh(p)}

DefaultBuffer == 60

\* plugin.tokenRefresh.buffer || 60
BufferOf(tokenRefresh) ==
    IF NumTruthy(tokenRefresh.buffer)
    THEN CHOOSE n \in tokenRefresh.buffer : TRUE
    ELSE DefaultBuffer

OidcConfig(te, cid, buffer) ==
    [tokenEndpoint |-> te, clientId |-> cid, buffer |-> buffer]

\* the host substitution taking the issuer URL for the token endpoint
HostOidcConfigIssuer(buffer) ==
    OidcConfig("http://localhost:7777/realms/chefs-embed", keycloakClientID, buffer)

HostOidcConfig(buffer) == OidcConfig(keycloakTokenURL, keycloakClientID, buffer)

\* the custom branch checking tokenEndpoint alone
CustomOidcConfigPartial(oidc, buffer) ==
    IF ~Truthy(oidc.tokenEndpoint) THEN Null
    ELSE OidcConfig(oidc.tokenEndpoint, oidc.clientId, buffer)

CustomOidcConfig(oidc, buffer) ==
    IF ~Truthy(oidc.tokenEndpoint) \/ ~Truthy(oidc.clientId) THEN Null
    ELSE OidcConfig(oidc.tokenEndpoint, oidc.clientId, buffer)

\* the lookup falling back to the host's provider when a registered plugin has
\* no usable tokenRefresh.oidc
getPluginOidcConfigFallback(reg, slug) ==
    LET plugin == getPluginIn(reg, slug) IN
    IF plugin = Null THEN Null
    ELSE IF ~OidcTruthy(OidcOf(plugin)) THEN HostOidcConfig(DefaultBuffer)
    ELSE LET buffer == BufferOf(plugin.tokenRefresh)
             oidc == plugin.tokenRefresh.oidc
         IN IF oidc.kind = "string" /\ oidc.str = "host"
            THEN HostOidcConfig(buffer)
            ELSE CustomOidcConfig(oidc, buffer)

getPluginOidcConfigIn(reg, slug) ==
    LET plugin == getPluginIn(reg, slug) IN
    IF ~OidcTruthy(OidcOf(plugin)) THEN Null
    ELSE LET buffer == BufferOf(plugin.tokenRefresh)
             oidc == plugin.tokenRefresh.oidc
         IN IF oidc.kind = "string" /\ oidc.str = "host"
            THEN HostOidcConfig(buffer)
            ELSE CustomOidcConfig(oidc, buffer)

getPluginOidcConfig(slug) == getPluginOidcConfigIn(registry, slug)

\* ---- loadPluginRegistry

\* the continuation after the last await of the loop: the closing console.log,
\* and the promise resolves
LoadContinue(queue) ==
    /\ jsFiles' = queue
    /\ IF queue = << >>
       THEN loadPc' = "done" /\ loadResult' = "resolved"
       ELSE loadPc' = "import" /\ UNCHANGED loadResult

\* registry.clear(), then await fs.readdir
LoadStart ==
    /\ loadPc \in {"idle", "done"}
    /\ registry' = EmptyRegistry
    /\ loadPc' = "readdir"
    /\ loadResult' = "pending"
    /\ jsFiles' = << >>
    /\ UNCHANGED <<pluginsDir, moduleCache, query>>

\* a load without the outer catch: the failure of readdir rejects its promise
ReaddirFailedRaises ==
    /\ loadPc' = "done"
    /\ loadResult' = "rejected"
    /\ UNCHANGED <<registry, jsFiles>>

\* readdir threw: the outer catch logs it
ReaddirFailed ==
    /\ loadPc' = "done"
    /\ loadResult' = "resolved"
    /\ UNCHANGED <<registry, jsFiles>>

\* readdir resolved: keep the names ending in .js
ReaddirResolved ==
    /\ LET listed == SelectSeq(pluginsDir.entries, LAMBDA f : EndsWithJs(f.name))
       IN LoadContinue([i \in DOMAIN listed |-> listed[i].name])
    /\ UNCHANGED registry

LoadReaddir ==
    /\ loadPc = "readdir"
    /\ IF pluginsDir.readable THEN ReaddirResolved ELSE ReaddirFailed
    /\ UNCHANGED <<pluginsDir, moduleCache, query>>

\* import() threw with no inner catch: the outer catch ends the load
ImportFailedEndsLoad(file, rest) ==
    /\ loadPc' = "done"
    /\ loadResult' = "resolved"
    /\ jsFiles' = << >>
    /\ UNCHANGED registry

\* import() threw: the inner catch logs it and the loop goes on
ImportFailed(file, rest) ==
    /\ LoadContinue(rest)
    /\ UNCHANGED registry

\* if (manifest?.slug) registry.set(...)
ImportResolved(file, rest) ==
    /\ LET manifest == file.module.manifest IN
       IF manifest # Null /\ Truthy(manifest.slug)
       THEN registry' = MapSet(registry, manifest.slug,
                               RegistryEntry(manifest, <<"/plugins/", file.name>>))
       ELSE UNCHANGED registry
    /\ LoadContinue(rest)

\* the module map of a process that has imported nothing
NoModules == [name \in {} |-> Null]

\* the module the file of that name evaluates to now; a file that is not
\* there cannot be imported
ModuleOnDisk(name) ==
    IF pluginsDir.readable /\ \E i \in DOMAIN pluginsDir.entries : pluginsDir.entries[i].name = name
    THEN LET i == CHOOSE i \in DOMAIN pluginsDir.entries : pluginsDir.entries[i].name = name
         IN pluginsDir.entries[i].module
    ELSE ModuleThrows

\* await import(pathToFileURL(absPath)): a module the process imported before
\* comes from its module map, whatever the file holds now; a new one is
\* evaluated and kept. A failed import may or may not be kept by the loader.
Import(name) ==
    IF name \in DOMAIN moduleCache
    THEN {[module |-> moduleCache[name], cache |-> moduleCache]}
    ELSE IF ModuleOnDisk(name).kind = "throws"
    THEN {[module |-> ModuleThrows, cache |-> moduleCache],
          [module |-> ModuleThrows, cache |-> MapSet(moduleCache, name, ModuleThrows)]}
    ELSE {[module |-> ModuleOnDisk(name),
           cache |-> MapSet(moduleCache, name, ModuleOnDisk(name))]}

LoadImport ==
    /\ loadPc = "import"
    /\ jsFiles # << >>
    /\ \E imported \in Import(Head(jsFiles)) :
          LET file == [name |-> Head(jsFiles), module |-> imported.module]
              rest == Tail(jsFiles)
          IN /\ moduleCache' = imported.cache
             /\ IF file.module.kind = "throws"
                THEN ImportFailed(file, rest)
                ELSE ImportResolved(file, rest)
    /\ UNCHANGED <<pluginsDir, query>>

\* ---- readers of the registry

QueryResult(slug) ==
    [slug |-> slug,
     plugin |-> getPlugin(slug),
     has |-> hasTokenRefresh(getPlugin(slug)),
     oidc |-> getPluginOidcConfig(slug),
     all |-> getAllPlugins]

NoQuery == [slug |-> Undefined, plugin |-> Null, has |-> FALSE, oidc |-> Null,
            all |-> {}]

\* getPlugin, hasTokenRefresh and getPluginOidcConfig called for one slug, and
\* getAllPlugins, in one synchronous stretch of a reader
Query ==
    /\ \E slug \in Slugs \cup {"unknown"} : query' = QueryResult(slug)
    /\ UNCHANGED <<pluginsDir, registry, loadPc, jsFiles, moduleCache, loadResult>>

\* ---- the plugin directory between two loads

\* the manifests the reloading specification draws its modules from
ReloadManifests ==
    {[slug |-> "demo", formId |-> "form-1", tokenRefresh |-> HostBlock],
     [slug |-> "other", formId |-> "form-1", tokenRefresh |-> NoTokenRefresh]}

\* files are added, removed or rewritten, or the directory becomes unreadable,
\* while no load is running
EditPlugins ==
    /\ loadPc \in {"idle", "done"}
    /\ pluginsDir' \in Dirs(ReloadManifests) \ {pluginsDir}
    /\ UNCHANGED <<registry, loadPc, jsFiles, moduleCache, loadResult, query>>

-----------------------------------------------------------------------------
(* Tokens and their decoding *)

\* Buffer.from(segment, "base64url").toString(), and the same through
\* replace(/-/g, "+").replace(/_/g, "/") and "base64": the JSON text a segment holds.
Base64Decode(segment) ==
    CASE segment = "eyJleHAiOjUwfQ" -> "{\"exp\":50}"
      [] segment = "eyJleHAiOjEwMH0" -> "{\"exp\":100}"
      [] segment = "eyJleHAiOjIwMH0" -> "{\"exp\":200}"
      [] segment = "e30" -> "{}"
      [] segment = "bnVsbA" -> "null"
      [] segment = "eyJhbGciOiJSUzI1NiJ9" -> "{\"alg\":\"RS256\"}"
      [] segment = "eyJhbGciOiJIUzUxMiJ9" -> "{\"alg\":\"HS512\"}"
      [] segment = "eyJ0eXAiOiJSZWZyZXNoIn0" -> "{\"typ\":\"Refresh\"}"
      [] segment = "eyJ0eXAiOiJJRCJ9" -> "{\"typ\":\"ID\"}"
      [] OTHER -> "oops"

JsonObject(text, exp) == [throws |-> FALSE, kind |-> "object", json |-> text, exp |-> exp]
JsonNull == [throws |-> FALSE, kind |-> "null", json |-> "null", exp |-> {}]
JsonSyntaxError == [throws |-> TRUE, kind |-> "error", json |-> "", exp |-> {}]

\* JSON.parse(text): the value, with its exp member when it has one, or a SyntaxError
JSONParse(text) ==
    CASE text = "{\"exp\":50}" -> JsonObject(text, {50})
      [] text = "{\"exp\":100}" -> JsonObject(text, {100})
      [] text = "{\"exp\":200}" -> JsonObject(text, {200})
      [] text \in {"{}", "{\"alg\":\"RS256\"}", "{\"alg\":\"HS512\"}",
                   "{\"typ\":\"Refresh\"}", "{\"typ\":\"ID\"}"} -> JsonObject(text, {})
      [] text = "null" -> JsonNull
      [] OTHER -> JsonSyntaxError

\* src/utils/jwt.js
decodeJWT(token) ==
    IF ~TokenTruthy(token) THEN Null
    ELSE IF Len(token) # 3 THEN Null
    ELSE LET header == JSONParse(Base64Decode(token[1]))
             payload == JSONParse(Base64Decode(token[2]))
         IN IF header.throws \/ payload.throws THEN Null
            ELSE [header |-> header, payload |-> payload, raw |-> token]

\* the signatures that tell the tokens the provider issues apart
Sigs == <<"sig-1", "sig-2", "sig-3", "sig-4", "sig-5", "sig-6", "sig-7", "sig-8">>

Jwt(payloadSegment, n) == <<"eyJhbGciOiJSUzI1NiJ9", payloadSegment, Sigs[n]>>
RefreshJwt(n) == <<"eyJhbGciOiJIUzUxMiJ9", "eyJ0eXAiOiJSZWZyZXNoIn0", Sigs[n]>>
IdJwt(n) == <<"eyJhbGciOiJSUzI1NiJ9", "eyJ0eXAiOiJJRCJ9", Sigs[n]>>

-----------------------------------------------------------------------------
(* Sessions: express-session and passport as src/index.js sets them up *)

SessionIds == {"alice", "bob"}

\* the user object the passport verify callback stores
User(accessToken, refreshToken, idToken) ==
    [accessToken |-> accessToken, refreshToken |-> refreshToken, idToken |-> idToken]

Anonymous == [authenticated |-> FALSE, user |-> Null]
LoggedIn(n, withRefresh) ==
    [authenticated |-> TRUE,
     user |-> User(Jwt("eyJleHAiOjUwfQ", n),
                   IF withRefresh THEN RefreshJwt(n) ELSE NoToken,
                   IdJwt(n))]

SessionNo(sid) == IF sid = "alice" THEN 1 ELSE 2

SessionOf(sid, kind) ==
    IF kind = "anonymous" THEN Anonymous
    ELSE LoggedIn(SessionNo(sid), kind = "refresh")

-----------------------------------------------------------------------------
(* src/routes/auth-refresh.js: POST /auth/refresh-token *)

\* the most refresh requests made in one behaviour
MaxRequests == 2

\* the handler invocations that may be in progress at once; a slot is free again
\* once its response has been sent
Slots == {1, 2}

\* req.body: absent, or an object whose pluginId may be missing
NoBody == [present |-> FALSE, pluginId |-> Undefined]
Body(pluginId) == [present |-> TRUE, pluginId |-> pluginId]
PluginIds == {Undefined, "", "demo", "hosted", "plain", "broken", "unknown"}
Bodies == {NoBody} \cup {Body(p) : p \in PluginIds}

Response(status, error) ==
    [status |-> status, error |-> error, accessToken |-> NoToken,
     expiresAt |-> {}, payload |-> Null]
Success(accessToken, payload) ==
    [status |-> 200, error |-> << >>, accessToken |-> accessToken,
     expiresAt |-> payload.exp, payload |-> payload]

IdleRequest ==
    [pc |-> "idle", sid |-> Undefined, body |-> NoBody, loaded |-> Null, user |-> Null,
     refreshToken |-> NoToken, grant |-> Null, upstream |-> Null, res |-> Null,
     fetches |-> 0]

\* a store that writes the handler's user into every session
RespondSharedStore(r, req, res) ==
    /\ reqs' = [reqs EXCEPT ![r] = [req EXCEPT !.pc = "done", !.res = res]]
    /\ IF req.user # req.loaded
       THEN sessions' = [sid \in SessionIds |-> [sessions[sid] EXCEPT !.user = req.user]]
       ELSE UNCHANGED sessions

\* res.json(...) ends the response; express-session then stores the session when
\* the handler changed it (resave: false)
Respond(r, req, res) ==
    /\ reqs' = [reqs EXCEPT ![r] = [req EXCEPT !.pc = "done", !.res = res]]
    /\ IF req.user # req.loaded
       THEN sessions' = [sessions EXCEPT ![req.sid].user = req.user]
       ELSE UNCHANGED sessions

\* the checks with the body looked at before the caller
PrecheckBodyFirst(authenticated, body, user) ==
    LET pluginId == IF body.present THEN body.pluginId ELSE Undefined IN
    IF ~Truthy(pluginId) THEN Response(400, <<"pluginId is required">>)
    ELSE IF ~authenticated THEN Response(401, <<"Not authenticated">>)
    ELSE IF getPluginOidcConfig(pluginId) = Null
    THEN Response(400, <<"Plugin \"", pluginId, "\" does not have token refresh configured">>)
    ELSE IF user = Null \/ ~TokenTruthy(user.refreshToken)
    THEN Response(401, <<"No refresh token available">>)
    ELSE Null

\* the checks with the stored refresh token looked at before the body
PrecheckTokenFirst(authenticated, body, user) ==
    LET pluginId == IF body.present THEN body.pluginId ELSE Undefined IN
    IF ~authenticated THEN Response(401, <<"Not authenticated">>)
    ELSE IF user = Null \/ ~TokenTruthy(user.refreshToken)
    THEN Response(401, <<"No refresh token available">>)
    ELSE IF ~Truthy(pluginId) THEN Response(400, <<"pluginId is required">>)
    ELSE IF getPluginOidcConfig(pluginId) = Null
    THEN Response(400, <<"Plugin \"", pluginId, "\" does not have token refresh configured">>)
    ELSE Null

\* a handler that answers 404 for a plugin the registry does not hold
PrecheckUnknown404(authenticated, body, user) ==
    LET pluginId == IF body.present THEN body.pluginId ELSE Undefined IN
    IF ~authenticated THEN Response(401, <<"Not authenticated">>)
    ELSE IF ~Truthy(pluginId) THEN Response(400, <<"pluginId is required">>)
    ELSE IF getPlugin(pluginId) = Null THEN Response(404, <<"Unknown plugin">>)
    ELSE IF getPluginOidcConfig(pluginId) = Null
    THEN Response(400, <<"Plugin \"", pluginId, "\" does not have token refresh configured">>)
    ELSE IF user = Null \/ ~TokenTruthy(user.refreshToken)
    THEN Response(401, <<"No refresh token available">>)
    ELSE Null

\* a handler that sends the grant whether or not the session holds a refresh token
PrecheckNoTokenCheck(authenticated, body, user) ==
    LET pluginId == IF body.present THEN body.pluginId ELSE Undefined IN
    IF ~authenticated THEN Response(401, <<"Not authenticated">>)
    ELSE IF ~Truthy(pluginId) THEN Response(400, <<"pluginId is required">>)
    ELSE IF getPluginOidcConfig(pluginId) = Null
    THEN Response(400, <<"Plugin \"", pluginId, "\" does not have token refresh configured">>)
    ELSE Null

\* the checks with the stored refresh token looked at before the plugin's
\* configuration
PrecheckTokenBeforeConfig(authenticated, body, user) ==
    LET pluginId == IF body.present THEN body.pluginId ELSE Undefined IN
    IF ~authenticated THEN Response(401, <<"Not authenticated">>)
    ELSE IF ~Truthy(pluginId) THEN Response(400, <<"pluginId is required">>)
    ELSE IF user = Null \/ ~TokenTruthy(user.refreshToken)
    THEN Response(401, <<"No refresh token available">>)
    ELSE IF getPluginOidcConfig(pluginId) = Null
    THEN Response(400, <<"Plugin \"", pluginId, "\" does not have token refresh configured">>)
    ELSE Null

\* lines 27-46: the four checks, in order; Null when all pass
Precheck(authenticated, body, user) ==
    LET pluginId == IF body.present THEN body.pluginId ELSE Undefined IN
    IF ~authenticated THEN Response(401, <<"Not authenticated">>)
    ELSE IF ~Truthy(pluginId) THEN Response(400, <<"pluginId is required">>)
    ELSE IF getPluginOidcConfig(pluginId) = Null
    THEN Response(400, <<"Plugin \"", pluginId, "\" does not have token refresh configured">>)
    ELSE IF user = Null \/ ~TokenTruthy(user.refreshToken)
    THEN Response(401, <<"No refresh token available">>)
    ELSE Null

\* a grant that always carries the refresh token the first login issued
GrantLoginToken(oidc, refreshToken) ==
    [tokenEndpoint |-> oidc.tokenEndpoint, grant_type |-> "refresh_token",
     client_id |-> oidc.clientId, refresh_token |-> RefreshJwt(1)]

\* lines 49-57: the refresh-token grant sent to the resolved token endpoint
Grant(oidc, refreshToken) ==
    [tokenEndpoint |-> oidc.tokenEndpoint, grant_type |-> "refresh_token",
     client_id |-> oidc.clientId, refresh_token |-> refreshToken]

\* the handler up to its first await
Receive(r, sid, body) ==
    /\ listening
    /\ served < MaxRequests
    /\ reqs[r].pc \in {"idle", "done"}
    /\ \A q \in Slots : q < r => reqs[q].pc \notin {"idle", "done"}
    /\ served' = served + 1
    /\ LET session == sessions[sid]
           req == [IdleRequest EXCEPT !.sid = sid, !.body = body,
                                      !.loaded = session.user, !.user = session.user]
           failed == Precheck(session.authenticated, body, session.user)
       IN IF failed # Null
          THEN Respond(r, req, failed)
          ELSE /\ reqs' = [reqs EXCEPT ![r] =
                     [req EXCEPT !.pc = "fetch",
                                 !.refreshToken = session.user.refreshToken,
                                 !.grant = Grant(getPluginOidcConfig(body.pluginId),
                                                 session.user.refreshToken),
                                 !.fetches = 1]]
               /\ UNCHANGED sessions
    /\ UNCHANGED <<regVars, listening, provider, rendered>>

\* ---- the OIDC provider's answers to a grant

\* a reply is the rejection of fetch (a connection failure, a timeout), or a
\* response: its ok flag, its body text when that is not a token set, whether
\* the body is JSON, and the tokens of a JSON body
NetworkError == [kind |-> "reject", ok |-> FALSE, text |-> Undefined, json |-> FALSE,
                 access_token |-> NoToken, refresh_token |-> NoToken]
ErrorReply(text) == [kind |-> "http", ok |-> FALSE, text |-> text, json |-> TRUE,
                     access_token |-> NoToken, refresh_token |-> NoToken]
ErrorTexts == {"{\"error\":\"invalid_grant\"}", ""}
GarbledReply == [kind |-> "http", ok |-> TRUE, text |-> "<html>", json |-> FALSE,
                 access_token |-> NoToken, refresh_token |-> NoToken]
TokenReply(accessToken, refreshToken) ==
    [kind |-> "http", ok |-> TRUE, text |-> Undefined, json |-> TRUE,
     access_token |-> accessToken, refresh_token |-> refreshToken]

\* the successful replies of a provider to its n-th grant: a JWT with an exp claim
\* or without one, alone or with a rotated refresh token; and the replies whose
\* access token cannot be decoded: a payload that is not JSON or is null, an
\* opaque token (alone or with a rotated refresh token), and no token at all
TokenReplies(n) ==
    {TokenReply(at, rt) : at \in {Jwt("eyJleHAiOjEwMH0", n), Jwt("e30", n)},
                          rt \in {NoToken, RefreshJwt(n)}}
    \cup {TokenReply(at, NoToken) :
            at \in {Jwt("b29wcw", n), Jwt("bnVsbA", n), <<Sigs[n]>>, NoToken}}
    \cup {TokenReply(<<Sigs[n]>>, RefreshJwt(n)), TokenReply(Jwt("e30", n), <<"">>)}

\* a fetch that never settles
FetchHangs(r) ==
    /\ reqs[r].pc = "fetch"
    /\ reqs' = [reqs EXCEPT ![r].pc = "hung"]
    /\ UNCHANGED <<regVars, listening, sessions, served, provider, rendered>>

\* fetch settles: it rejects, or resolves with the provider's reply. The provider
\* accepts a refresh token it issued and has not rotated away.
FetchSettles(r) ==
    /\ reqs[r].pc = "fetch"
    /\ LET req == reqs[r]
           n == provider.issued + 1
       IN \/ /\ Respond(r, [req EXCEPT !.upstream = NetworkError],
                        Response(500, <<"Internal error during token refresh">>))
             /\ UNCHANGED provider
          \/ /\ \E reply \in {ErrorReply(text) : text \in ErrorTexts} \cup {GarbledReply} :
                    reqs' = [reqs EXCEPT ![r] =
                        [req EXCEPT !.pc = IF reply.ok THEN "json" ELSE "text",
                                    !.upstream = reply]]
             /\ UNCHANGED <<provider, sessions>>
          \/ /\ req.grant.refresh_token \in provider.valid
             /\ \E reply \in TokenReplies(n) :
                  /\ reqs' = [reqs EXCEPT ![r] =
                         [req EXCEPT !.pc = "json", !.upstream = reply]]
                  /\ provider' =
                         [issued |-> n,
                          valid |-> IF TokenTruthy(reply.refresh_token)
                                    THEN (provider.valid \ {req.grant.refresh_token})
                                         \cup {reply.refresh_token}
                                    ELSE provider.valid]
             /\ UNCHANGED sessions
    /\ UNCHANGED <<regVars, listening, served, rendered>>

\* a handler that relays the provider's error text
RefreshFailedRelays(r, req) ==
    Respond(r, req, Response(401, <<"Token refresh failed: ", req.upstream.text>>))

\* a handler that passes the provider's refusal on as a 403
RefreshFailed403(r, req) ==
    Respond(r, req, Response(403, <<"Token refresh failed">>))

\* lines 59-63: the provider refused; its error text is logged, not relayed
RefreshFailed(r, req) ==
    Respond(r, req, Response(401, <<"Token refresh failed">>))

\* the session update storing whatever refresh_token the reply holds
UpdateSessionAlways(user, tokens) ==
    [user EXCEPT !.accessToken = tokens.access_token,
                 !.refreshToken = tokens.refresh_token]

\* lines 68-72: the session's tokens are overwritten
UpdateSession(user, tokens) ==
    LET withAccess == [user EXCEPT !.accessToken = tokens.access_token] IN
    IF TokenTruthy(tokens.refresh_token)
    THEN [withAccess EXCEPT !.refreshToken = tokens.refresh_token]
    ELSE withAccess

\* the decoding taking the first segment, the header, for the payload
DecodeHeader(accessToken) ==
    IF accessToken = NoToken THEN JsonSyntaxError
    ELSE JSONParse(Base64Decode(accessToken[1]))

\* lines 75-76: const [, payloadB64] = access_token.split("."), then JSON.parse of
\* the decoded segment; throws when there is no token or no second segment
DecodePayload(accessToken) ==
    IF accessToken = NoToken \/ Len(accessToken) < 2 THEN JsonSyntaxError
    ELSE JSONParse(Base64Decode(accessToken[2]))

\* a handler without the catch block: an exception ends it without a response
TokensReadUncaught(r, req) ==
    IF ~req.upstream.json \/ DecodePayload(req.upstream.access_token).throws
       \/ DecodePayload(req.upstream.access_token).kind = "null"
    THEN reqs' = [reqs EXCEPT ![r].pc = "crashed"] /\ UNCHANGED sessions
    ELSE Respond(r, [req EXCEPT !.user = UpdateSession(req.user, req.upstream)],
                 Success(req.upstream.access_token,
                         DecodePayload(req.upstream.access_token)))

\* lines 65-86: the reply's JSON is read, the session updated, the token decoded
TokensRead(r, req) ==
    IF ~req.upstream.json
    THEN Respond(r, req, Response(500, <<"Internal error during token refresh">>))
    ELSE LET tokens == req.upstream
             updated == [req EXCEPT !.user = UpdateSession(req.user, tokens)]
             payload == DecodePayload(tokens.access_token)
         IN IF payload.throws \/ payload.kind = "null"
            THEN Respond(r, updated,
                         Response(500, <<"Internal error during token refresh">>))
            ELSE Respond(r, updated, Success(tokens.access_token, payload))

\* the handler after tokenResponse.text() or tokenResponse.json() settles
BodyRead(r) ==
    /\ reqs[r].pc \in {"text", "json"}
    /\ IF reqs[r].pc = "text"
       THEN RefreshFailed(r, reqs[r])
       ELSE TokensRead(r, reqs[r])
    /\ UNCHANGED <<regVars, listening, served, provider, rendered>>


-----------------------------------------------------------------------------
(* src/index.js: the page routes and the start of the server *)

\* decodeUserTokens(user)
decodeUserTokens(user) ==
    IF user = Null THEN Null
    ELSE [accessToken |-> decodeJWT(user.accessToken),
          idToken |-> decodeJWT(user.idToken),
          refreshToken |-> decodeJWT(user.refreshToken)]

\* what a route hands to res.render
Locals(view, status, user, decodedTokens, requestContext) ==
    [view |-> view, status |-> status, user |-> user,
     decodedTokens |-> decodedTokens, requestContext |-> requestContext]

\* GET /: rendered for anyone
RenderPublic(sid) ==
    /\ listening
    /\ LET user == sessions[sid].user IN
       rendered' = Locals("public", 200, user, decodeUserTokens(user), Null)
    /\ UNCHANGED <<regVars, listening, sessions, reqs, served, provider>>

\* GET /protected: requireAuth redirects an anonymous caller to the login
RenderProtected(sid) ==
    /\ listening
    /\ sessions[sid].authenticated
    /\ LET user == sessions[sid].user IN
       rendered' = Locals("protected", 200, user, decodeUserTokens(user), Null)
    /\ UNCHANGED <<regVars, listening, sessions, reqs, served, provider>>

\* GET /chefs-embed: the form is rendered, or the error page when fetchChefsToken throws
RenderChefsEmbed(sid) ==
    /\ listening
    /\ sessions[sid].authenticated
    /\ LET user == sessions[sid].user IN
       \E status \in {200, 500} :
           rendered' = Locals("chefs-embed", status, user, decodeUserTokens(user), Null)
    /\ UNCHANGED <<regVars, listening, sessions, reqs, served, provider>>

\* the raw context the plugin route passes to the plugin's register()
RequestContext(user) ==
    LET decoded == decodeUserTokens(user) IN
    [bearerToken |-> IF user # Null /\ TokenTruthy(user.accessToken)
                     THEN user.accessToken ELSE NoToken,
     tokenExpiresAt |-> IF decoded # Null /\ decoded.accessToken # Null
                        THEN decoded.accessToken.payload.exp ELSE {},
     decoded |-> decoded]

\* GET /chefs-embed-plugin?plugin=slug: 404 for an unknown plugin, else the embed
RenderChefsEmbedPlugin(sid, slug) ==
    /\ listening
    /\ sessions[sid].authenticated
    /\ LET user == sessions[sid].user IN
       IF getPlugin(slug) = Null
       THEN rendered' = Locals("chefs-embed-plugin", 404, user, Null, Null)
       ELSE rendered' = Locals("chefs-embed-plugin", 200, user, Null, RequestContext(user))
    /\ UNCHANGED <<regVars, listening, sessions, reqs, served, provider>>

\* the start-up block: await loadPluginRegistry(), then app.listen
Startup ==
    /\ loadResult = "none"
    /\ LoadStart
    /\ UNCHANGED srvVars

\* a start-up that calls app.listen without awaiting the load
ListenBeforeLoad ==
    /\ ~listening
    /\ listening' = TRUE
    /\ UNCHANGED <<regVars, sessions, reqs, served, provider, rendered>>

\* loadPluginRegistry() invoked again while the server runs
Reload ==
    /\ listening
    /\ LoadStart
    /\ UNCHANGED srvVars

Listen ==
    /\ loadResult = "resolved"
    /\ ~listening
    /\ listening' = TRUE
    /\ UNCHANGED <<regVars, sessions, reqs, served, provider, rendered>>

\* the plugin directory the server specifications start from: a plugin with its own
\* provider, one using the host's, one without tokenRefresh, one with a broken block
ServerManifest(slug, tokenRefresh) ==
    [slug |-> slug, formId |-> "form-1", tokenRefresh |-> tokenRefresh]

ServerDir ==
    [readable |-> TRUE,
     entries |-> <<
        [name |-> FileName(1, ".js"),
         module |-> ModuleWith(ServerManifest("demo",
            [present |-> TRUE,
             oidc |-> OidcObject("https://idp.example/token", "pub"),
             buffer |-> {}]))],
        [name |-> FileName(2, ".js"),
         module |-> ModuleWith(ServerManifest("hosted",
            [present |-> TRUE, oidc |-> OidcString("host"), buffer |-> {30}]))],
        [name |-> FileName(3, ".js"),
         module |-> ModuleWith(ServerManifest("plain", NoTokenRefresh))],
        [name |-> FileName(4, ".js"),
         module |-> ModuleWith(ServerManifest("broken",
            [present |-> TRUE,
             oidc |-> OidcObject("https://idp.example/token", Undefined),
             buffer |-> {}]))]
     >>]

-----------------------------------------------------------------------------
(* src/public/lib/user-token-refresh.js: the browser's refresh scheduler *)

MaxNotifications == 2     \* expiry notifications dispatched on the viewer
MaxBinds == 2             \* bind() calls made on the instance by its owner
MaxUnbinds == 2           \* unbind() calls made on the instance by its owner

Handlers == 1..MaxNotifications

\* the option objects a caller passes; a callback is absent, returns or throws
Callbacks == {"none", "returns", "throws"}
InitialTokens == {NoToken, <<"">>, Jwt("eyJleHAiOjUwfQ", 1)}
ClientBuffers == {{}, {30}}
NoOptions == [present |-> FALSE, pluginId |-> Undefined, initialToken |-> NoToken,
              buffer |-> {}, onRefreshFailed |-> "none", onRefreshSuccess |-> "none"]
OptionObjects ==
    [present : {TRUE}, pluginId : {Undefined, "", "demo"},
     initialToken : InitialTokens, buffer : ClientBuffers,
     onRefreshFailed : Callbacks, onRefreshSuccess : Callbacks]
Options == {NoOptions} \cup OptionObjects

\* the chefs-form-viewer element: its refreshUserToken is a function, a function
\* that throws, or missing (an element that is not upgraded yet)
ViewerMethods == {"function", "throws", "missing"}
Viewer(method) ==
    [refreshUserToken |-> method, listeners |-> {}, pushed |-> << >>, dispatched |-> 0]

\* new UserTokenRefresh(viewer, options)
DefaultClientBuffer == 60
UserTokenRefresh(options) ==
    [pluginId |-> options.pluginId,
     initialToken |-> IF TokenTruthy(options.initialToken)
                      THEN options.initialToken ELSE NoToken,
     refreshUrl |-> "/auth/refresh-token",
     buffer |-> IF NumTruthy(options.buffer) THEN options.buffer
                ELSE {DefaultClientBuffer},
     onRefreshFailed |-> options.onRefreshFailed,
     onRefreshSuccess |-> options.onRefreshSuccess,
     bound |-> FALSE]

\* a viewer method that ignores the token it is given
PushDropped(v, token, buffer) == v

\* viewer.refreshUserToken({token, buffer}) on a viewer that has the method
Push(v, token, buffer) ==
    IF v.refreshUserToken = "function"
    THEN [v EXCEPT !.pushed = Append(@, [token |-> token, buffer |-> buffer])]
    ELSE v

\* a variant of bind() without the pluginId check
bindAnyPlugin(i) ==
    IF i.bound
    THEN inst' = i /\ viewer' = viewer
    ELSE /\ inst' = [i EXCEPT !.bound = TRUE]
         /\ LET registered == [viewer EXCEPT !.listeners = @ \cup {"_handleExpiring"}]
            IN viewer' = IF i.initialToken # NoToken /\ viewer.refreshUserToken # "missing"
                         THEN Push(registered, i.initialToken, i.buffer)
                         ELSE registered

\* a variant of bind() without the _bound check
bindAgain(i) ==
    IF ~Truthy(i.pluginId)
    THEN inst' = i /\ viewer' = viewer
    ELSE /\ inst' = [i EXCEPT !.bound = TRUE]
         /\ LET registered == [viewer EXCEPT !.listeners = @ \cup {"_handleExpiring"}]
            IN viewer' = IF i.initialToken # NoToken /\ viewer.refreshUserToken # "missing"
                         THEN Push(registered, i.initialToken, i.buffer)
                         ELSE registered

\* a variant of bind() that registers the listener and leaves _bound unset
bindNoFlag(i) ==
    IF i.bound
    THEN inst' = i /\ viewer' = viewer
    ELSE IF ~Truthy(i.pluginId)
    THEN inst' = i /\ viewer' = viewer
    ELSE /\ inst' = i
         /\ LET registered == [viewer EXCEPT !.listeners = @ \cup {"_handleExpiring"}]
            IN viewer' = IF i.initialToken # NoToken /\ viewer.refreshUserToken # "missing"
                         THEN Push(registered, i.initialToken, i.buffer)
                         ELSE registered

\* a variant of bind() that leaves the initial token for later
bindNoPush(i) ==
    IF i.bound
    THEN inst' = i /\ viewer' = viewer
    ELSE IF ~Truthy(i.pluginId)
    THEN inst' = i /\ viewer' = viewer
    ELSE /\ inst' = [i EXCEPT !.bound = TRUE]
         /\ viewer' = [viewer EXCEPT !.listeners = @ \cup {"_handleExpiring"}]

\* bind() on the instance i
bind(i) ==
    IF i.bound
    THEN inst' = i /\ viewer' = viewer
    ELSE IF ~Truthy(i.pluginId)
    THEN inst' = i /\ viewer' = viewer
    ELSE /\ inst' = [i EXCEPT !.bound = TRUE]
         /\ LET registered == [viewer EXCEPT !.listeners = @ \cup {"_handleExpiring"}]
            IN viewer' = IF i.initialToken # NoToken /\ viewer.refreshUserToken # "missing"
                         THEN Push(registered, i.initialToken, i.buffer)
                         ELSE registered

\* the owner constructs an instance itself
Construct(options) ==
    /\ inst = Null
    /\ calls.init = "none"
    /\ inst' = UserTokenRefresh(options)
    /\ UNCHANGED <<viewer, net, calls>>

\* the owner calls bind()
Bind ==
    /\ inst # Null
    /\ calls.bind < MaxBinds
    /\ bind(inst)
    /\ calls' = [calls EXCEPT !.bind = @ + 1]
    /\ UNCHANGED net

\* unbind()
\* a variant of unbind() that leaves the listener on the viewer
unbindFlagOnly(i) ==
    inst' = [i EXCEPT !.bound = FALSE] /\ viewer' = viewer

\* unbind() on the instance i
unbind(i) ==
    IF ~i.bound
    THEN inst' = i /\ viewer' = viewer
    ELSE /\ viewer' = [viewer EXCEPT !.listeners = @ \ {"_handleExpiring"}]
         /\ inst' = [i EXCEPT !.bound = FALSE]

\* an unbind() that also abandons the runs of the handler still in flight
UnbindAborts ==
    /\ inst # Null
    /\ calls.unbind < MaxUnbinds
    /\ unbind(inst)
    /\ calls' = [calls EXCEPT
                    !.unbind = @ + 1,
                    !.handlers = [h \in Handlers |->
                        IF calls.handlers[h].pc \in {"fetch", "json"}
                        THEN [calls.handlers[h] EXCEPT !.pc = "done",
                                                       !.settled = "fulfilled"]
                        ELSE calls.handlers[h]]]
    /\ UNCHANGED net

\* the owner calls unbind()
Unbind ==
    /\ inst # Null
    /\ calls.unbind < MaxUnbinds
    /\ unbind(inst)
    /\ calls' = [calls EXCEPT !.unbind = @ + 1]
    /\ UNCHANGED net

\* initUserTokenRefresh(viewer, options)
InitUserTokenRefresh(options) ==
    /\ inst = Null
    /\ calls.init = "none"
    /\ IF ~options.present \/ ~Truthy(options.pluginId)
       THEN /\ calls' = [calls EXCEPT !.init = "null"]
            /\ UNCHANGED <<inst, viewer>>
       ELSE /\ bind(UserTokenRefresh(options))
            /\ calls' = [calls EXCEPT !.init =
                            IF TokenTruthy(options.initialToken)
                               /\ viewer.refreshUserToken = "throws"
                            THEN "threw" ELSE "refresher"]
    /\ UNCHANGED net

\* one run of _handleExpiring: where it stands, the expired flag of its event,
\* the response it got, the calls it made on the viewer and on the callbacks (in
\* order), and how the promise it returned settled
IdleHandler ==
    [pc |-> "idle", expired |-> FALSE, response |-> Null, trace |-> << >>,
     settled |-> "pending"]

\* an entry of a run's trace
Called(name, reason) == [name |-> name, reason |-> reason]

\* a failure reason: err.message, or `Refresh failed: ${response.status}`
Reason(text) == [text |-> text, status |-> {}]
RefreshFailedStatus(status) == [text |-> "Refresh failed: ", status |-> {status}]

\* _handleFailure(reason) ending the run h, after the callbacks invoked so far
handleFailure(h, invoked, reason) ==
    [calls EXCEPT !.handlers[h] =
        [@ EXCEPT !.pc = "done",
                  !.trace =
                      IF inst.onRefreshFailed # "none"
                      THEN Append(invoked, Called("onRefreshFailed", reason))
                      ELSE invoked,
                  !.settled = IF inst.onRefreshFailed = "throws"
                              THEN "rejected" ELSE "fulfilled"]]

\* event.detail of a formio:userTokenExpiring event
NoDetail == [present |-> FALSE, expired |-> FALSE]
Details == {NoDetail} \cup [present : {TRUE}, expired : BOOLEAN]

\* a handler that takes every notification for a live one
ExpiredIgnored(detail) == FALSE

\* const { expired } = event.detail || {}, as tested by if (expired)
Expired(detail) == detail.present /\ detail.expired

\* a formio:userTokenExpiring event is dispatched on the viewer; a registered
\* _handleExpiring runs up to its first await
Dispatch(detail) ==
    /\ viewer.dispatched < MaxNotifications
    /\ viewer' = [viewer EXCEPT !.dispatched = @ + 1]
    /\ LET h == viewer.dispatched + 1 IN
       IF viewer.listeners = {}
       THEN UNCHANGED <<net, calls>>
       ELSE IF Expired(detail)
       THEN /\ calls' = [handleFailure(h, << >>, Reason("Token already expired"))
                            EXCEPT !.handlers[h].expired = detail.present /\ detail.expired]
            /\ UNCHANGED net
       ELSE /\ net' = Append(net, [url |-> inst.refreshUrl, pluginId |-> inst.pluginId])
            /\ calls' = [calls EXCEPT !.handlers[h] =
                            [@ EXCEPT !.pc = "fetch",
                                      !.expired = detail.present /\ detail.expired]]
    /\ UNCHANGED inst

\* what fetch settles with: a network error, or a response with a status and a
\* body that is a JSON object (with or without accessToken, error), or not JSON
FetchRejected ==
    [kind |-> "reject", ok |-> FALSE, status |-> 0, json |-> FALSE,
     accessToken |-> NoToken, error |-> Undefined]
HttpResponse(status, json, accessToken, error) ==
    [kind |-> "http", ok |-> status \in 200..299, status |-> status, json |-> json,
     accessToken |-> accessToken, error |-> error]
ClientResponses ==
    {FetchRejected,
     HttpResponse(200, TRUE, Jwt("eyJleHAiOjEwMH0", 3), Undefined),
     HttpResponse(200, TRUE, Jwt("eyJleHAiOjIwMH0", 4), Undefined),
     HttpResponse(200, TRUE, NoToken, Undefined),
     HttpResponse(200, FALSE, NoToken, Undefined),
     HttpResponse(401, TRUE, NoToken, "Token refresh failed"),
     HttpResponse(400, TRUE, NoToken, Undefined),
     HttpResponse(500, FALSE, NoToken, Undefined)}

\* the fetch of run h settles
ResponseArrives(h, response) ==
    /\ calls.handlers[h].pc = "fetch"
    /\ IF response.kind = "reject"
       THEN calls' = handleFailure(h, << >>, Reason("Failed to fetch"))
       ELSE calls' = [calls EXCEPT !.handlers[h] =
                        [@ EXCEPT !.pc = "json", !.response = response]]
    /\ UNCHANGED <<inst, viewer, net>>

\* response.json() of run h settles, and the run goes on to its end
ResponseBodyRead(h) ==
    LET response == calls.handlers[h].response IN
    /\ calls.handlers[h].pc = "json"
    /\ IF ~response.ok
       THEN /\ calls' = handleFailure(h, << >>,
                            IF response.json /\ Truthy(response.error)
                            THEN Reason(response.error)
                            ELSE RefreshFailedStatus(response.status))
            /\ UNCHANGED viewer
       ELSE IF ~response.json
       THEN /\ calls' = handleFailure(h, << >>, Reason("Unexpected token"))
            /\ UNCHANGED viewer
       ELSE IF viewer.refreshUserToken = "throws"
       THEN /\ calls' = handleFailure(h, <<Called("viewer.refreshUserToken", Reason(""))>>,
                                      Reason("refreshUserToken threw"))
            /\ UNCHANGED viewer
       ELSE /\ viewer' = Push(viewer, response.accessToken, inst.buffer)
            /\ LET pushed == IF viewer.refreshUserToken = "function"
                             THEN <<Called("viewer.refreshUserToken", Reason(""))>>
                             ELSE << >>
                   invoked == IF inst.onRefreshSuccess = "none" THEN pushed
                              ELSE Append(pushed, Called("onRefreshSuccess", Reason("")))
               IN IF inst.onRefreshSuccess = "throws"
                  THEN calls' = handleFailure(h, invoked, Reason("onRefreshSuccess threw"))
                  ELSE calls' = [calls EXCEPT !.handlers[h] =
                                   [@ EXCEPT !.pc = "done", !.trace = invoked,
                                             !.settled = "fulfilled"]]
    /\ UNCHANGED <<inst, net>>

-----------------------------------------------------------------------------
(* Specifications *)

InitNoServer ==
    /\ listening = FALSE
    /\ sessions = [sid \in SessionIds |-> Anonymous]
    /\ reqs = [r \in Slots |-> IdleRequest]
    /\ served = 0
    /\ provider = [issued |-> 0, valid |-> {}]
    /\ rendered = Null

\* the page before any script touched the viewer
InitClientOn(methods) ==
    /\ inst = Null
    /\ viewer \in {Viewer(m) : m \in methods}
    /\ net = << >>
    /\ calls = [bind |-> 0, unbind |-> 0, init |-> "none",
                handlers |-> [h \in Handlers |-> IdleHandler]]

InitNoClient == InitClientOn({"function"})

InitRegistryOn(dirs) ==
    /\ pluginsDir \in dirs
    /\ registry = EmptyRegistry
    /\ loadPc = "idle"
    /\ jsFiles = << >>
    /\ moduleCache = NoModules
    /\ loadResult = "none"
    /\ query = NoQuery

NextRegistry ==
    \/ LoadStart /\ UNCHANGED <<srvVars, cliVars>>
    \/ LoadReaddir /\ UNCHANGED <<srvVars, cliVars>>
    \/ LoadImport /\ UNCHANGED <<srvVars, cliVars>>
    \/ Query /\ UNCHANGED <<srvVars, cliVars>>

\* the registry loaded from any directory of up to MaxFiles modules
InitRegistry == InitRegistryOn(Dirs(FewManifests)) /\ InitNoServer /\ InitNoClient

SpecRegistry == InitRegistry /\ [][NextRegistry]_vars

\* the registry loaded from a directory of one module, holding any manifest
OneModuleDirs ==
    {[readable |-> TRUE,
      entries |-> <<[name |-> FileName(1, ".js"), module |-> ModuleWith(m)]>>] :
        m \in Manifests}

InitResolver == InitRegistryOn(OneModuleDirs) /\ InitNoServer /\ InitNoClient

SpecResolver == InitResolver /\ [][NextRegistry]_vars

\* loads of the registry with the directory changing between them
InitReload == InitRegistryOn(Dirs(ReloadManifests)) /\ InitNoServer /\ InitNoClient

NextReload ==
    \/ LoadStart /\ UNCHANGED <<srvVars, cliVars>>
    \/ LoadReaddir /\ UNCHANGED <<srvVars, cliVars>>
    \/ LoadImport /\ UNCHANGED <<srvVars, cliVars>>
    \/ EditPlugins /\ UNCHANGED <<srvVars, cliVars>>

SpecReload == InitReload /\ [][NextReload]_vars

\* the server: the registry is loaded, the server listens, refresh requests arrive
InitServerOn(dirs) ==
    /\ InitRegistryOn(dirs)
    /\ listening = FALSE
    /\ \E kinds \in [SessionIds -> {"anonymous", "refresh", "norefresh"}] :
          /\ kinds["alice"] = "refresh"
          /\ sessions = [sid \in SessionIds |-> SessionOf(sid, kinds[sid])]
          /\ provider = [issued |-> Cardinality(SessionIds),
                         valid |-> {RefreshJwt(SessionNo(sid)) :
                                      sid \in {x \in SessionIds : kinds[x] = "refresh"}}]
    /\ reqs = [r \in Slots |-> IdleRequest]
    /\ served = 0
    /\ rendered = Null
    /\ InitNoClient

InitServer == InitServerOn({ServerDir})

NextServer ==
    \/ Startup /\ UNCHANGED cliVars
    \/ LoadReaddir /\ UNCHANGED <<srvVars, cliVars>>
    \/ LoadImport /\ UNCHANGED <<srvVars, cliVars>>
    \/ Listen /\ UNCHANGED cliVars
    \/ \E r \in Slots, sid \in SessionIds, body \in Bodies :
          Receive(r, sid, body) /\ UNCHANGED cliVars
    \/ \E r \in Slots : FetchSettles(r) /\ UNCHANGED cliVars
    \/ \E r \in Slots : BodyRead(r) /\ UNCHANGED cliVars

SpecServer == InitServer /\ [][NextServer]_vars

\* the server started on a directory that may be unreadable, with the registry
\* reloaded while requests arrive
InitServerReload ==
    InitServerOn({ServerDir, [readable |-> FALSE, entries |-> << >>]})

NextServerReload ==
    \/ NextServer
    \/ Reload /\ UNCHANGED cliVars

SpecServerReload == InitServerReload /\ [][NextServerReload]_vars

\* the server whose awaited promises settle: fetch resolves or rejects (Node's
\* fetch gives up on a silent peer), and so do response.text() and .json()
SpecServerLive ==
    /\ InitServer
    /\ [][NextServer]_vars
    /\ \A r \in Slots : WF_vars(FetchSettles(r) /\ UNCHANGED cliVars)
    /\ \A r \in Slots : WF_vars(BodyRead(r) /\ UNCHANGED cliVars)

\* the server with its page routes, followed along one refresh request
NextPages ==
    \/ Startup /\ UNCHANGED cliVars
    \/ LoadReaddir /\ UNCHANGED <<srvVars, cliVars>>
    \/ LoadImport /\ UNCHANGED <<srvVars, cliVars>>
    \/ Listen /\ UNCHANGED cliVars
    \/ \E sid \in SessionIds, body \in Bodies :
          served = 0 /\ Receive(1, sid, body) /\ UNCHANGED cliVars
    \/ FetchSettles(1) /\ UNCHANGED cliVars
    \/ BodyRead(1) /\ UNCHANGED cliVars
    \/ \E sid \in SessionIds : RenderPublic(sid) /\ UNCHANGED cliVars
    \/ \E sid \in SessionIds : RenderProtected(sid) /\ UNCHANGED cliVars
    \/ \E sid \in SessionIds : RenderChefsEmbed(sid) /\ UNCHANGED cliVars
    \/ \E sid \in SessionIds, slug \in {"demo", "unknown"} :
          RenderChefsEmbedPlugin(sid, slug) /\ UNCHANGED cliVars

SpecPages == InitServer /\ [][NextPages]_vars

\* the browser: a page constructs and binds a scheduler, the viewer notifies
InitClient ==
    /\ InitRegistryOn({ServerDir})
    /\ InitNoServer
    /\ InitClientOn(ViewerMethods)

NextClient ==
    \/ \E options \in Options : Construct(options) /\ UNCHANGED <<regVars, srvVars>>
    \/ \E options \in Options : InitUserTokenRefresh(options) /\ UNCHANGED <<regVars, srvVars>>
    \/ Bind /\ UNCHANGED <<regVars, srvVars>>
    \/ Unbind /\ UNCHANGED <<regVars, srvVars>>
    \/ \E detail \in Details : Dispatch(detail) /\ UNCHANGED <<regVars, srvVars>>
    \/ \E h \in Handlers, response \in ClientResponses :
          ResponseArrives(h, response) /\ UNCHANGED <<regVars, srvVars>>
    \/ \E h \in Handlers : ResponseBodyRead(h) /\ UNCHANGED <<regVars, srvVars>>

SpecClient == InitClient /\ [][NextClient]_vars

-----------------------------------------------------------------------------
(* Properties of the server *)

\* the refresh tokens the sessions hold
HeldRefreshTokens ==
    {sessions[sid].user.refreshToken :
        sid \in {x \in SessionIds : sessions[x].user # Null
                                    /\ TokenTruthy(sessions[x].user.refreshToken)}}

\* a record of decoded tokens carries the raw refresh token rt
DecodedExposes(decoded, rt) ==
    /\ decoded # Null
    /\ decoded.refreshToken # Null
    /\ decoded.refreshToken.raw = rt

\* what a route handed to res.render carries the refresh token rt
LocalsExpose(locals, rt) ==
    /\ locals # Null
    /\ \/ locals.user # Null /\ locals.user.refreshToken = rt
       \/ DecodedExposes(locals.decodedTokens, rt)
       \/ /\ locals.requestContext # Null
          /\ \/ locals.requestContext.bearerToken = rt
             \/ DecodedExposes(locals.requestContext.decoded, rt)

\* a response body of the refresh endpoint carries the refresh token rt
ResponseExposes(res, rt) ==
    /\ res # Null
    /\ res.accessToken = rt

\* C1: nothing the server sends to the browser - a response body of the refresh
\* endpoint, the data handed to page rendering, the plugin request context -
\* contains a refresh token held by a session.
C1_RefreshTokenStaysOnServer ==
    \A rt \in HeldRefreshTokens :
        /\ ~LocalsExpose(rendered, rt)
        /\ \A r \in Slots : ~ResponseExposes(reqs[r].res, rt)

\* the request in slot r came from a caller of the given kind
Received(r) == reqs[r].pc # "idle"
Answered(r) == reqs[r].pc = "done"
FromAnonymous(r) == Received(r) /\ ~sessions[reqs[r].sid].authenticated
FromAuthenticated(r) == Received(r) /\ sessions[reqs[r].sid].authenticated
PluginIdOf(r) == IF reqs[r].body.present THEN reqs[r].body.pluginId ELSE Undefined

\* C2: a refresh request from a caller without an authenticated session is
\* answered 401 whatever its body holds, and no grant is sent to the provider.
C2_Unauthenticated401 ==
    \A r \in Slots :
        FromAnonymous(r) =>
            /\ Answered(r)
            /\ reqs[r].res.status = 401
            /\ reqs[r].fetches = 0
            /\ reqs[r].grant = Null

C2_Witness ==
    \E r \in Slots :
        /\ FromAnonymous(r)
        /\ reqs[r].body = Body("demo")
        /\ reqs[r].res.status = 401

\* the step in which the handler of slot r starts and answers at once
AnswersAtOnce(r) == reqs[r].pc \in {"idle", "done"} /\ reqs'[r] # reqs[r]

\* C3: a refresh request of an authenticated session whose body has no pluginId
\* (no body, an empty object) is answered 400; the session's credentials are
\* neither read into a grant nor written, and the provider is not contacted.
C3_MissingPluginId400 ==
    /\ [](\A r \in Slots :
            (FromAuthenticated(r) /\ PluginIdOf(r) = Undefined) =>
                /\ Answered(r)
                /\ reqs[r].res.status = 400
                /\ reqs[r].fetches = 0
                /\ reqs[r].grant = Null)
    /\ [][\A r \in Slots :
            /\ AnswersAtOnce(r)
            /\ sessions[reqs'[r].sid].authenticated
            /\ (~reqs'[r].body.present \/ reqs'[r].body.pluginId = Undefined)
            => (sessions' = sessions /\ provider' = provider)]_vars

C3_Witness ==
    \E r \in Slots :
        /\ FromAuthenticated(r)
        /\ reqs[r].body = Body(Undefined)
        /\ ~TokenTruthy(sessions[reqs[r].sid].user.refreshToken)
        /\ reqs[r].res.status = 400

\* the exp claim a JWT carries, read off its payload segment
ExpClaim(token) ==
    CASE token[2] = "eyJleHAiOjUwfQ" -> {50}
      [] token[2] = "eyJleHAiOjEwMH0" -> {100}
      [] token[2] = "eyJleHAiOjIwMH0" -> {200}
      [] OTHER -> {}

\* a JWT whose payload segment holds a JSON object
DecodableJwt(token) ==
    /\ Len(token) = 3
    /\ token[2] \in {"eyJleHAiOjUwfQ", "eyJleHAiOjEwMH0", "eyJleHAiOjIwMH0", "e30"}

\* the provider accepted the grant of slot r and replied with a JWT access token
GrantAccepted(r) ==
    /\ reqs[r].upstream # Null
    /\ reqs[r].upstream.kind = "http"
    /\ reqs[r].upstream.ok
    /\ reqs[r].upstream.json
    /\ DecodableJwt(reqs[r].upstream.access_token)

\* the provider accepted the grant of slot r, whatever its reply holds
GrantAcceptedAnyReply(r) ==
    /\ reqs[r].upstream # Null
    /\ reqs[r].upstream.kind = "http"
    /\ reqs[r].upstream.ok

\* C4 as stated: whenever the provider accepts the grant the answer is 200 with
\* the provider's access_token
C4_AcceptedGrantAnswers200 ==
    \A r \in Slots :
        (Answered(r) /\ GrantAcceptedAnyReply(r)) =>
            /\ reqs[r].res.status = 200
            /\ reqs[r].res.accessToken = reqs[r].upstream.access_token

\* C4: when the session holds a refresh token, the plugin resolves to a provider
\* and the provider accepts the grant with a JSON reply whose access_token is a
\* JWT with a JSON object as payload, the answer is 200, its accessToken is the
\* provider's access_token and its expiresAt is the exp claim of that token.
C4_SuccessReturnsTokenAndExp ==
    \A r \in Slots :
        (Answered(r) /\ GrantAccepted(r)) =>
            /\ reqs[r].res.status = 200
            /\ reqs[r].res.accessToken = reqs[r].upstream.access_token
            /\ reqs[r].res.expiresAt = ExpClaim(reqs[r].upstream.access_token)

C4_Witness ==
    \E r \in Slots :
        /\ Answered(r)
        /\ GrantAccepted(r)
        /\ reqs[r].body = Body("demo")
        /\ reqs[r].res.status = 200
        /\ reqs[r].res.expiresAt = {100}

\* the step in which the handler of slot r answers 200
AnswersSuccess(r) ==
    /\ reqs[r].pc = "json"
    /\ reqs'[r].pc = "done"
    /\ reqs'[r].res.status = 200

\* C5: when a refresh succeeds the stored session holds the provider's
\* access_token, and holds the provider's refresh_token when the reply carried
\* one and, when it did not, the refresh token the request found in the session.
C5_SessionHoldsNewTokens ==
    [][\A r \in Slots :
        AnswersSuccess(r) =>
            LET stored == sessions'[reqs[r].sid].user
                reply == reqs[r].upstream
            IN /\ stored.accessToken = reply.access_token
               /\ stored.refreshToken =
                    IF reply.refresh_token \notin {NoToken, <<"">>}
                    THEN reply.refresh_token
                    ELSE reqs[r].refreshToken]_vars

C5_Witness ==
    \E r \in Slots :
        /\ Answered(r)
        /\ reqs[r].res.status = 200
        /\ reqs[r].upstream.refresh_token \notin {NoToken, <<"">>}
        /\ reqs[r].upstream.refresh_token # reqs[r].refreshToken
        /\ sessions[reqs[r].sid].user.refreshToken = reqs[r].upstream.refresh_token
        /\ sessions[reqs[r].sid].user.accessToken = reqs[r].upstream.access_token

\* the handler of slot r waits for the provider
Waiting(r) == reqs[r].pc \notin {"idle", "done"}

\* the plugins of the server's directory that resolve to no provider: not
\* registered, registered without tokenRefresh, registered with a malformed oidc
Unconfigured == {"unknown", "plain", "broken"}
Configured == {"demo", "hosted"}

\* C17: a request of an authenticated session naming a plugin the resolver
\* returns null for is answered 400 without a grant being sent, whether the
\* plugin is unknown, has no tokenRefresh block or has a malformed oidc.
C17_UnconfiguredPlugin400 ==
    \A r \in Slots :
        (FromAuthenticated(r) /\ PluginIdOf(r) \in Unconfigured) =>
            /\ getPluginOidcConfig(PluginIdOf(r)) = Null
            /\ Answered(r)
            /\ reqs[r].res.status = 400
            /\ reqs[r].res.error =
                 <<"Plugin \"", PluginIdOf(r), "\" does not have token refresh configured">>
            /\ reqs[r].fetches = 0

C17_Witness ==
    \E r \in Slots :
        /\ Answered(r)
        /\ FromAuthenticated(r)
        /\ PluginIdOf(r) = "broken"
        /\ TokenTruthy(reqs[r].loaded.refreshToken)
        /\ reqs[r].res.status = 400

\* C18: a request of an authenticated session naming a configured plugin, when
\* the session holds no refresh token, is answered 401 and no grant is sent.
C18_NoRefreshToken401 ==
    \A r \in Slots :
        (/\ FromAuthenticated(r)
         /\ PluginIdOf(r) \in Configured
         /\ reqs[r].loaded.refreshToken \in {NoToken, <<"">>}) =>
            /\ Answered(r)
            /\ reqs[r].res.status = 401
            /\ reqs[r].fetches = 0
            /\ reqs[r].grant = Null

C18_Witness ==
    \E r \in Slots :
        /\ Answered(r)
        /\ FromAuthenticated(r)
        /\ PluginIdOf(r) = "hosted"
        /\ reqs[r].loaded.refreshToken = NoToken
        /\ reqs[r].res.status = 401

\* the exchange of slot r raised: fetch rejected, the body was not JSON, or the
\* access_token of the body is missing or does not decode
ExchangeRaised(r) ==
    /\ reqs[r].upstream # Null
    /\ \/ reqs[r].upstream.kind = "reject"
       \/ /\ reqs[r].upstream.ok
          /\ ~reqs[r].upstream.json \/ ~DecodableJwt(reqs[r].upstream.access_token)

\* C19: when the exchange with the provider or the decoding of the returned
\* access token raises, the request is answered 500 with the fixed message
\* "Internal error during token refresh"; every such request is answered.
C19_ExceptionsAnswered500 ==
    /\ [](\A r \in Slots :
            (Answered(r) /\ ExchangeRaised(r)) =>
                reqs[r].res = Response(500, <<"Internal error during token refresh">>))
    /\ \A r \in Slots : Waiting(r) ~> Answered(r)
    /\ [](\A r \in Slots : reqs[r].pc \in {"idle", "fetch", "text", "json", "done"})

C19_Witness ==
    /\ Answered(1) /\ reqs[1].upstream = NetworkError /\ reqs[1].res.status = 500
    /\ Answered(2) /\ reqs[2].upstream # Null
    /\ reqs[2].upstream.json /\ reqs[2].upstream.access_token = NoToken
    /\ reqs[2].res.status = 500

GrantRefused(r) ==
    /\ reqs[r].upstream # Null
    /\ reqs[r].upstream.kind = "http"
    /\ ~reqs[r].upstream.ok

-----------------------------------------------------------------------------
(* Properties of the registry *)

Queried == query.plugin # Null

\* C6: a manifest without a tokenRefresh block has hasTokenRefresh false and
\* getPluginOidcConfig null: the host's provider is never substituted.
C6_NoTokenRefreshNoConfig ==
    /\ \A m \in Manifests : ~m.tokenRefresh.present => ~hasTokenRefresh(m)
    /\ (Queried /\ ~query.plugin.tokenRefresh.present) =>
            (query.has = FALSE /\ query.oidc = Null)

C6_Witness ==
    /\ Queried
    /\ ~query.plugin.tokenRefresh.present
    /\ query.slug = "demo"
    /\ query.oidc = Null

\* C7: a registered manifest whose tokenRefresh.oidc is "host" resolves to the
\* host's token URL and client id, whatever its other fields hold.
C7_HostUsesHostProvider ==
    (/\ Queried
     /\ query.plugin.tokenRefresh.present
     /\ query.plugin.tokenRefresh.oidc = OidcString("host")) =>
        /\ query.oidc # Null
        /\ query.oidc.tokenEndpoint =
             "http://localhost:7777/realms/chefs-embed/protocol/openid-connect/token"
        /\ query.oidc.clientId = "express-app"

C7_Witness ==
    /\ Queried
    /\ query.plugin.tokenRefresh.present
    /\ query.plugin.tokenRefresh.oidc = OidcString("host")
    /\ query.plugin.formId = "form-2"
    /\ query.plugin.tokenRefresh.buffer = {30}
    /\ query.oidc # Null
    /\ query.oidc.clientId = "express-app"

\* C8: a manifest whose tokenRefresh.oidc is an object with tokenEndpoint or
\* clientId missing or empty resolves to null, never to a partial config.
C8_PartialOidcIsNull ==
    (/\ Queried
     /\ query.plugin.tokenRefresh.present
     /\ query.plugin.tokenRefresh.oidc.kind = "object"
     /\ \/ query.plugin.tokenRefresh.oidc.tokenEndpoint \in {Undefined, ""}
        \/ query.plugin.tokenRefresh.oidc.clientId \in {Undefined, ""}) =>
        query.oidc = Null

C8_Witness ==
    /\ Queried
    /\ query.plugin.tokenRefresh.present
    /\ query.plugin.tokenRefresh.oidc =
         OidcObject("https://idp.example/token", Undefined)
    /\ query.oidc = Null

\* the entries of the directory whose module imports and carries a slug
Registrable(i) ==
    LET f == pluginsDir.entries[i] IN
    /\ f.name[2] = ".js"
    /\ f.module.kind = "manifest"
    /\ f.module.manifest.slug \notin {Undefined, ""}

RegistrableEntries == {i \in DOMAIN pluginsDir.entries : Registrable(i)}

\* the last registrable entry declaring slug s
LastWith(s) ==
    CHOOSE i \in RegistrableEntries :
        /\ pluginsDir.entries[i].module.manifest.slug = s
        /\ \A j \in RegistrableEntries :
              pluginsDir.entries[j].module.manifest.slug = s => j <= i

\* C9: once loadPluginRegistry has completed, the registry holds exactly the
\* modules that imported and expose a manifest with a non-empty slug, keyed by
\* slug; a module that throws or lacks a slug is skipped without keeping later
\* modules out, and the load never raises.
C9_LoadKeepsImportable ==
    /\ loadResult # "rejected"
    /\ (loadPc = "done" => loadResult = "resolved")
    /\ (loadPc = "done" /\ pluginsDir.readable) =>
        /\ DOMAIN registry =
             {pluginsDir.entries[i].module.manifest.slug : i \in RegistrableEntries}
        /\ \A s \in DOMAIN registry :
             LET f == pluginsDir.entries[LastWith(s)] IN
             /\ registry[s].slug = s
             /\ registry[s].formId = f.module.manifest.formId
             /\ registry[s].tokenRefresh = f.module.manifest.tokenRefresh
             /\ registry[s].modulePath = <<"/plugins/", f.name>>

C9_Witness ==
    /\ loadPc = "done"
    /\ Len(pluginsDir.entries) = 2
    /\ pluginsDir.entries[1].name[2] = ".js"
    /\ pluginsDir.entries[1].module.kind = "throws"
    /\ Registrable(2)
    /\ DOMAIN registry = {pluginsDir.entries[2].module.manifest.slug}

\* the registry a completed load of the directory yields
CompleteRegistry ==
    IF ~pluginsDir.readable THEN EmptyRegistry
    ELSE [s \in {pluginsDir.entries[i].module.manifest.slug : i \in RegistrableEntries} |->
            RegistryEntry(pluginsDir.entries[LastWith(s)].module.manifest,
                          <<"/plugins/", pluginsDir.entries[LastWith(s)].name>>)]

\* what a reader sees of a registry
ViewOf(reg, slug) ==
    [plugin |-> IF slug \in DOMAIN reg THEN reg[slug] ELSE Null,
     all |-> {reg[s] : s \in DOMAIN reg}]

\* C14: a reader never sees a part of the registry: what getPlugin and
\* getAllPlugins return, also while loadPluginRegistry runs, is what the
\* registry before the load (the empty one, or the one of the previous load of
\* the same directory) or the completely loaded registry would return.
C14_ReadersSeeCompleteRegistry ==
    query # NoQuery =>
        LET seen == [plugin |-> query.plugin, all |-> query.all] IN
        \/ seen = ViewOf(EmptyRegistry, query.slug)
        \/ seen = ViewOf(CompleteRegistry, query.slug)

-----------------------------------------------------------------------------
(* Properties of the browser scheduler *)

\* no run of _handleExpiring has started
NoHandlerRan == \A h \in Handlers : calls.handlers[h] = IdleHandler

\* C10: on an instance without a pluginId, bind() registers no listener, the
\* instance stays unbound and no network request is issued, also when expiry
\* notifications are dispatched on the viewer; and initUserTokenRefresh called
\* without a pluginId returns null and leaves the viewer as it was.
C10_NoPluginIdNoBinding ==
    /\ [](inst # Null /\ inst.pluginId \in {Undefined, ""} =>
            /\ inst.bound = FALSE
            /\ viewer.listeners = {}
            /\ viewer.pushed = << >>
            /\ net = << >>
            /\ NoHandlerRan)
    /\ [](calls.init = "null" => inst = Null /\ viewer.listeners = {} /\ net = << >>)
    /\ [][calls.init = "none" /\ calls'.init = "null" =>
            inst' = inst /\ viewer' = viewer /\ net' = net]_vars

C10_Witness ==
    /\ inst # Null
    /\ inst.pluginId = Undefined
    /\ inst.initialToken # NoToken
    /\ calls.bind >= 1
    /\ viewer.dispatched >= 1
    /\ viewer.listeners = {}
    /\ net = << >>

\* the failure callback invoked with the given reason, when one was supplied
FailureReported(reason) ==
    IF inst.onRefreshFailed = "none" THEN << >>
    ELSE <<Called("onRefreshFailed", reason)>>

\* C11: a run of the handler on a notification whose expired flag is set ends at
\* once with the failure callback invoked (reason "Token already expired"); it
\* issues no network request and pushes no token into the viewer.
C11_ExpiredFailsWithoutRequest ==
    /\ [](\A h \in Handlers :
            calls.handlers[h].expired =>
                /\ calls.handlers[h].pc = "done"
                /\ calls.handlers[h].response = Null
                /\ calls.handlers[h].trace = FailureReported(Reason("Token already expired")))
    /\ [][\A h \in Handlers :
            calls.handlers[h].pc = "idle" /\ calls'.handlers[h].expired =>
                net' = net /\ viewer'.pushed = viewer.pushed]_vars

C11_Witness ==
    /\ inst # Null
    /\ inst.bound
    /\ inst.onRefreshFailed = "returns"
    /\ calls.handlers[1].expired
    /\ calls.handlers[1].trace = <<Called("onRefreshFailed", Reason("Token already expired"))>>
    /\ net = << >>
    /\ viewer.pushed = << >>

\* a step that is a bind() call, an unbind() call, a notification
BindCalled == calls'.bind = calls.bind + 1
UnbindCalled == calls'.unbind = calls.unbind + 1
Notified == viewer'.dispatched = viewer.dispatched + 1

\* C12: bind() on a bound instance changes nothing; bind() on an unbound
\* instance leaves at most one listener on the viewer and pushes the initial
\* token at most once.
C12_BindIdempotent ==
    /\ [](Cardinality(viewer.listeners) <= 1)
    /\ [][BindCalled =>
            IF inst.bound
            THEN inst' = inst /\ viewer' = viewer /\ net' = net
            ELSE \/ viewer'.pushed = viewer.pushed
                 \/ viewer'.pushed =
                      Append(viewer.pushed,
                             [token |-> inst.initialToken, buffer |-> inst.buffer])]_vars

C12_Witness ==
    /\ inst # Null
    /\ inst.bound
    /\ inst.initialToken # NoToken
    /\ calls.bind >= 2
    /\ calls.unbind = 0
    /\ viewer.listeners = {"_handleExpiring"}
    /\ Len(viewer.pushed) = 1

\* C13: unbind() on an unbound instance changes nothing; unbind() on a bound
\* instance removes the listener; a notification dispatched while the instance
\* is unbound starts no run of the handler: no network request, no callback.
C13_UnbindStopsHandling ==
    /\ [][UnbindCalled /\ ~inst.bound =>
            inst' = inst /\ viewer' = viewer /\ net' = net
            /\ calls'.handlers = calls.handlers]_vars
    /\ [][UnbindCalled /\ inst.bound =>
            viewer'.listeners = {} /\ ~inst'.bound]_vars
    /\ [][Notified /\ (inst = Null \/ ~inst.bound) =>
            net' = net /\ calls' = calls]_vars

C13_Witness ==
    /\ inst # Null
    /\ ~inst.bound
    /\ calls.unbind >= 1
    /\ viewer.dispatched = 2
    /\ calls.handlers[1].pc # "idle"
    /\ calls.handlers[2] = IdleHandler
    /\ Len(net) <= 1

\* the run h reads, in this step, the body of a success response that carries
\* an access token
SuccessRead(h) ==
    /\ calls.handlers[h].pc = "json"
    /\ calls'.handlers[h].pc = "done"
    /\ calls.handlers[h].response.ok
    /\ calls.handlers[h].response.json
    /\ calls.handlers[h].response.accessToken # NoToken

\* the calls a run makes on success: the viewer first, then the success callback
\* when one was supplied
SuccessCalls ==
    IF inst.onRefreshSuccess = "none"
    THEN <<Called("viewer.refreshUserToken", Reason(""))>>
    ELSE <<Called("viewer.refreshUserToken", Reason("")),
           Called("onRefreshSuccess", Reason(""))>>

\* C20: when the refresh endpoint answers a live notification's request with
\* success, the run pushes the returned access token (with the instance's
\* buffer) into the viewer and then invokes the success callback, if one was
\* supplied; the viewer is one whose refreshUserToken accepts the token.
C20_SuccessPushesThenCallsBack ==
    [][\A h \in Handlers :
        (SuccessRead(h) /\ viewer.refreshUserToken = "function") =>
            /\ ~calls.handlers[h].expired
            /\ viewer'.pushed =
                 Append(viewer.pushed,
                        [token |-> calls.handlers[h].response.accessToken,
                         buffer |-> inst.buffer])
            /\ Len(calls'.handlers[h].trace) >= Len(SuccessCalls)
            /\ SubSeq(calls'.handlers[h].trace, 1, Len(SuccessCalls)) = SuccessCalls]_vars

C20_Witness ==
    /\ inst # Null
    /\ inst.onRefreshSuccess = "returns"
    /\ calls.handlers[1].pc = "done"
    /\ calls.handlers[1].trace = <<Called("viewer.refreshUserToken", Reason("")),
                                   Called("onRefreshSuccess", Reason(""))>>
    /\ calls.handlers[1].settled = "fulfilled"
    /\ Len(viewer.pushed) >= 1
    /\ viewer.pushed[Len(viewer.pushed)].token = calls.handlers[1].response.accessToken
    /\ calls.handlers[1].response.accessToken = Jwt("eyJleHAiOjEwMH0", 3)

\* the run h handled a live notification and has ended
LiveRunEnded(h) == calls.handlers[h].pc = "done" /\ ~calls.handlers[h].expired

\* the refresh of the ended run h failed: fetch rejected (the run holds no
\* response), the response was not a success, or its body was malformed
RejectedOrRefused(h) ==
    \/ calls.handlers[h].response = Null
    \/ ~calls.handlers[h].response.ok
MalformedBody(h) ==
    /\ calls.handlers[h].response # Null
    /\ calls.handlers[h].response.ok
    /\ ~calls.handlers[h].response.json
MissingAccessToken(h) ==
    /\ calls.handlers[h].response # Null
    /\ calls.handlers[h].response.ok
    /\ calls.handlers[h].response.json
    /\ calls.handlers[h].response.accessToken = NoToken

\* the names of the calls a run made
NamesCalled(h) ==
    {calls.handlers[h].trace[i].name : i \in DOMAIN calls.handlers[h].trace}

\* the run h reported a failure and nothing else: no token pushed, no success
FailureOnly(h) ==
    /\ "viewer.refreshUserToken" \notin NamesCalled(h)
    /\ "onRefreshSuccess" \notin NamesCalled(h)
    /\ inst.onRefreshFailed # "none" =>
          /\ Len(calls.handlers[h].trace) = 1
          /\ calls.handlers[h].trace[1].name = "onRefreshFailed"

\* C21: every failure of a live refresh - a non-success response, a network
\* error, a malformed response such as a success body without an accessToken -
\* ends with the failure callback invoked with a reason and no token pushed
\* into the viewer.
C21_EveryFailureReported ==
    \A h \in Handlers :
        (LiveRunEnded(h)
         /\ (RejectedOrRefused(h) \/ MalformedBody(h) \/ MissingAccessToken(h)))
        => FailureOnly(h)

\* C22: the promise a run of the handler returns never rejects, whatever the
\* request's outcome and whatever the viewer method and the callbacks do.
C22_HandlerNeverRejects ==
    \A h \in Handlers : calls.handlers[h].settled # "rejected"

\* the two slots hold requests of one session and one plugin that both sent a
\* grant; the second slot is only taken while the first is in flight, so the
\* two requests overlapped
Overlapped ==
    /\ \A r \in Slots : reqs[r].fetches = 1
    /\ reqs[1].sid = reqs[2].sid
    /\ PluginIdOf(1) = PluginIdOf(2)

\* C23: two overlapping refresh requests of one session and plugin whose
\* grants the provider accepted are both answered 200, the session ends
\* holding the tokens of one of the two replies, and once both are answered
\* the session's stored refresh token is one the provider still accepts.
C23_OverlappingRefreshesStayValid ==
    (Overlapped /\ \A r \in Slots : Answered(r) /\ GrantAccepted(r)) =>
        /\ \A r \in Slots : reqs[r].res.status = 200
        /\ \E r \in Slots :
              sessions[reqs[1].sid].user.accessToken = reqs[r].upstream.access_token
        /\ sessions[reqs[1].sid].user.refreshToken \in provider.valid

\* the step in which the handler of slot r sends its response
Answers(r) == reqs[r].pc # "done" /\ reqs'[r].pc = "done"

\* C24: a step in which the endpoint answers with a status other than 200
\* leaves the session's accessToken and refreshToken as they were.
C24_FailureLeavesSession ==
    [][\A r \in Slots :
          (Answers(r) /\ reqs'[r].res.status # 200) =>
              /\ sessions'[reqs'[r].sid].user = sessions[reqs'[r].sid].user
              /\ reqs'[r].user = reqs'[r].loaded]_vars

\* the step in which the handler of slot r sends a grant
SendsGrant(r) == reqs[r].pc \in {"idle", "done"} /\ reqs'[r].pc = "fetch"

\* the step in which the handler of slot r answers after a JSON reply that
\* carries a rotated refresh token
AnswersRotated(r) ==
    /\ Answers(r)
    /\ reqs[r].pc = "json"
    /\ reqs[r].upstream.json
    /\ TokenTruthy(reqs[r].upstream.refresh_token)

RunEnds(h) == calls.handlers[h].pc \in {"fetch", "json"} /\ calls'.handlers[h].pc = "done"

\* the run h is waiting for its response or for the response's body
InFlight(h) == calls.handlers[h].pc \in {"fetch", "json"}

\* C26: unbind() leaves the runs in flight alone, and a run that ends while the
\* instance is unbound is processed as on a bound one: a success pushes the
\* token into the viewer and calls the success callback, and with both
\* callbacks supplied every ending calls one of them.
C26_UnbindKeepsInFlight ==
    /\ [][UnbindCalled => (calls'.handlers = calls.handlers /\ net' = net)]_vars
    /\ [][\A h \in Handlers :
            (SuccessRead(h) /\ ~inst.bound /\ viewer.refreshUserToken = "function") =>
                /\ viewer'.pushed =
                     Append(viewer.pushed,
                            [token |-> calls.handlers[h].response.accessToken,
                             buffer |-> inst.buffer])
                /\ Len(calls'.handlers[h].trace) >= Len(SuccessCalls)
                /\ SubSeq(calls'.handlers[h].trace, 1, Len(SuccessCalls)) = SuccessCalls]_vars
    /\ [][\A h \in Handlers :
            (RunEnds(h) /\ ~inst.bound
             /\ inst.onRefreshSuccess # "none" /\ inst.onRefreshFailed # "none") =>
                \E i \in DOMAIN calls'.handlers[h].trace :
                    calls'.handlers[h].trace[i].name
                        \in {"onRefreshSuccess", "onRefreshFailed"}]_vars

\* unbind() was called while run 1 waited for its response; the success
\* response has arrived on the unbound instance and its body is about to be read
C26_Witness ==
    /\ inst # Null
    /\ ~inst.bound
    /\ calls.unbind >= 1
    /\ viewer.listeners = {}
    /\ viewer.refreshUserToken = "function"
    /\ inst.onRefreshSuccess = "returns"
    /\ InFlight(1)
    /\ calls.handlers[1].pc = "json"
    /\ calls.handlers[1].response.ok
    /\ calls.handlers[1].response.accessToken = Jwt("eyJleHAiOjIwMH0", 4)

\* a step of a run of the handler: a notification, or a run moving on
HandlerStep ==
    \/ Notified
    \/ calls'.handlers # calls.handlers

\* C27: the instance is bound exactly when its listener is on the viewer; the
\* flag is set only by a bind() that passes its checks (the owner's, or the one
\* initUserTokenRefresh makes), cleared only by unbind(), and left as it is by
\* every step of a run of the handler.
C27_BoundIffListening ==
    /\ [](IF inst = Null THEN viewer.listeners = {}
          ELSE inst.bound <=> (viewer.listeners = {"_handleExpiring"}))
    /\ [][(inst # Null /\ ~inst.bound /\ inst'.bound) =>
             (BindCalled /\ Truthy(inst.pluginId))]_vars
    /\ [][(inst = Null /\ inst' # Null /\ inst'.bound) =>
             (calls.init = "none" /\ calls'.init \in {"refresher", "threw"})]_vars
    /\ [][(inst # Null /\ inst.bound /\ ~inst'.bound) => UnbindCalled]_vars
    /\ [][HandlerStep => (inst' = inst /\ viewer'.listeners = viewer.listeners)]_vars

\* an instance that was bound, handled a notification to its end, stayed bound,
\* and was then unbound and bound again
C27_Witness ==
    /\ inst # Null
    /\ inst.bound
    /\ calls.bind = 2
    /\ calls.unbind = 1
    /\ calls.init = "none"
    /\ viewer.listeners = {"_handleExpiring"}
    /\ calls.handlers[1].pc = "done"
    /\ calls.handlers[1].trace # << >>

-----------------------------------------------------------------------------
(* Properties of reloading the registry *)

\* the step in which a load of the registry ends
Completes == loadPc # "done" /\ loadPc' = "done"

\* C29: when a load ends, the registry holds exactly the plugins the
\* directory's files yield at that time; an entry of an earlier load whose
\* file no longer imports is gone.
C29_ReloadRebuilds ==
    [][Completes => registry' = CompleteRegistry]_vars

\* the step in which readdir settles
ReaddirSettles == loadPc = "readdir" /\ loadPc' # "readdir"

\* the step in which loadPluginRegistry is invoked
LoadInvoked == loadPc \in {"idle", "done"} /\ loadPc' = "readdir"

\* C30: a load of a directory that cannot be read ends without raising and
\* with the registry empty, whatever the registry held when the load was
\* invoked.
C30_UnreadableDirLeavesEmpty ==
    /\ [](loadResult # "rejected")
    /\ [][LoadInvoked => registry' = EmptyRegistry]_vars
    /\ [][(ReaddirSettles /\ ~pluginsDir.readable) =>
             /\ loadPc' = "done"
             /\ loadResult' = "resolved"
             /\ registry' = EmptyRegistry]_vars

\* a load was invoked on a directory that has become unreadable, in a process
\* whose earlier load had registered the plugin demo
C30_Witness ==
    /\ loadPc = "readdir"
    /\ ~pluginsDir.readable
    /\ registry = EmptyRegistry
    /\ \E name \in DOMAIN moduleCache :
          /\ moduleCache[name].kind = "manifest"
          /\ moduleCache[name].manifest.slug = "demo"

-----------------------------------------------------------------------------
(* Properties of the server's start *)

\* the step in which the handler of slot r starts
Starts(r) == reqs[r].pc \in {"idle", "done"} /\ reqs'[r] # reqs[r]

\* the request starting in slot r comes from an authenticated session and
\* names a plugin
NamesPlugin(r) ==
    /\ sessions[reqs'[r].sid].authenticated
    /\ reqs'[r].body.present
    /\ Truthy(reqs'[r].body.pluginId)

\* the 400 answer for a plugin without a token refresh configuration
NotConfigured(pluginId) ==
    Response(400, <<"Plugin \"", pluginId, "\" does not have token refresh configured">>)

-----------------------------------------------------------------------------
(* Properties of the resolver *)

\* C31: the buffer of a resolved configuration is the manifest's
\* tokenRefresh.buffer whenever the manifest has one, 0 included, and 60 only
\* when it has none.
C31_BufferAsDeclared ==
    (Queried /\ query.oidc # Null) =>
        IF query.plugin.tokenRefresh.buffer = {}
        THEN query.oidc.buffer = 60
        ELSE query.oidc.buffer \in query.plugin.tokenRefresh.buffer

\* C38: for every plugin of the registry hasTokenRefresh holds exactly when
\* getPluginOidcConfig returns a configuration, so getPluginsWithTokenRefresh
\* lists the plugins the refresh endpoint resolves, and a reader calling both
\* for one slug gets answers that agree.
C38_ListAgreesWithResolver ==
    /\ \A s \in DOMAIN registry :
          hasTokenRefresh(registry[s]) <=> (getPluginOidcConfig(s) # Null)
    /\ getPluginsWithTokenRefresh =
          {p \in getAllPlugins : getPluginOidcConfig(p.slug) # Null}
    /\ Queried => (query.has <=> (query.oidc # Null))

\* a registered plugin whose oidc is a string other than "host": truthy, yet
\* refused by the predicate and by the resolver alike
C38_Witness ==
    /\ Queried
    /\ query.plugin.tokenRefresh.present
    /\ query.plugin.tokenRefresh.oidc = OidcString("keycloak")
    /\ ~query.has
    /\ query.oidc = Null
    /\ getPluginsWithTokenRefresh = {}
    /\ DOMAIN registry = {query.slug}

-----------------------------------------------------------------------------
(* Frame and order of the refresh endpoint *)

\* the sessions other than the one the request of slot r belongs to
OtherSessions(r) == SessionIds \ {reqs'[r].sid}

\* C32: a step of a refresh request leaves the registry and every plugin's
\* resolved configuration as they were and changes no session but the
\* caller's; the grant goes to the token endpoint, with the client id,
\* resolved for the plugin the request names.
C32_OnlyCallersSession ==
    /\ [][\A r \in Slots :
            reqs'[r] # reqs[r] =>
                /\ registry' = registry
                /\ \A p \in PluginIds :
                      getPluginOidcConfigIn(registry', p) = getPluginOidcConfigIn(registry, p)
                /\ \A sid \in OtherSessions(r) : sessions'[sid] = sessions[sid]
                /\ sessions'[reqs'[r].sid].authenticated
                      = sessions[reqs'[r].sid].authenticated]_vars
    /\ [](\A r \in Slots :
            reqs[r].grant # Null =>
                /\ getPluginOidcConfig(PluginIdOf(r)) # Null
                /\ reqs[r].grant.tokenEndpoint
                      = getPluginOidcConfig(PluginIdOf(r)).tokenEndpoint
                /\ reqs[r].grant.client_id
                      = getPluginOidcConfig(PluginIdOf(r)).clientId)

\* alice's request for demo was granted with a rotated token, sent to demo's
\* own provider, while bob's session still holds what his login gave him
C32_Witness ==
    /\ Answered(1)
    /\ reqs[1].sid = "alice"
    /\ PluginIdOf(1) = "demo"
    /\ reqs[1].res.status = 200
    /\ reqs[1].grant.tokenEndpoint = "https://idp.example/token"
    /\ sessions["alice"].user.refreshToken = RefreshJwt(3)
    /\ sessions["bob"] = LoggedIn(2, TRUE)

\* what the four checks find for the request in slot r
PassesAuth(r) == sessions[reqs[r].sid].authenticated
PassesPluginId(r) == Truthy(PluginIdOf(r))
PassesConfig(r) == getPluginOidcConfig(PluginIdOf(r)) # Null
PassesToken(r) == reqs[r].loaded # Null /\ TokenTruthy(reqs[r].loaded.refreshToken)

\* C34: the checks are applied in the order authentication, pluginId, plugin
\* configuration, stored refresh token, and the answer is that of the first
\* check that fails, whatever the later ones would find.
C34_FirstFailingCheckAnswers ==
    \A r \in Slots :
        Received(r) =>
            IF ~PassesAuth(r)
            THEN Answered(r) /\ reqs[r].res = Response(401, <<"Not authenticated">>)
            ELSE IF ~PassesPluginId(r)
            THEN Answered(r) /\ reqs[r].res = Response(400, <<"pluginId is required">>)
            ELSE IF ~PassesConfig(r)
            THEN Answered(r) /\ reqs[r].res.status = 400
                 /\ reqs[r].res.error # <<"pluginId is required">>
            ELSE IF ~PassesToken(r)
            THEN Answered(r)
                 /\ reqs[r].res = Response(401, <<"No refresh token available">>)
            ELSE reqs[r].grant # Null

\* an authenticated session without a refresh token named an unconfigured
\* plugin and got 400, not 401
C34_Witness ==
    \E r \in Slots :
        /\ Answered(r)
        /\ PassesAuth(r)
        /\ PluginIdOf(r) = "plain"
        /\ ~PassesConfig(r)
        /\ ~PassesToken(r)
        /\ reqs[r].res.status = 400

-----------------------------------------------------------------------------
(* Properties of the tokens the scheduler pushes *)

\* the step in which an instance becomes bound: by the owner's bind(), or by
\* the bind() initUserTokenRefresh makes on the instance it creates
Binds == inst' # Null /\ inst'.bound /\ (inst = Null \/ ~inst.bound)

\* C33: a bind() that binds an instance holding an initial token hands that
\* token, with the instance's buffer, to the viewer within the same step, and
\* no bind() issues a network request or starts a run of the handler; the
\* viewer is one whose refreshUserToken is a function.
C33_BindSeedsViewer ==
    /\ [][(Binds /\ inst'.initialToken # NoToken
           /\ viewer.refreshUserToken = "function") =>
             viewer'.pushed =
                 Append(viewer.pushed,
                        [token |-> inst'.initialToken, buffer |-> inst'.buffer])]_vars
    /\ [][(Binds \/ BindCalled) =>
             (net' = net /\ calls'.handlers = calls.handlers)]_vars

\* the owner's bind() bound an instance holding the initial token, the viewer
\* was given it with the declared buffer, and nothing was requested
C33_Witness ==
    /\ inst # Null
    /\ inst.bound
    /\ inst.initialToken = Jwt("eyJleHAiOjUwfQ", 1)
    /\ inst.buffer = {30}
    /\ calls.bind = 1
    /\ calls.init = "none"
    /\ viewer.pushed = <<[token |-> Jwt("eyJleHAiOjUwfQ", 1), buffer |-> {30}]>>
    /\ net = << >>
    /\ viewer.dispatched = 0

\* the callbacks a run invoked
CallbacksInvoked(h) ==
    {i \in DOMAIN calls.handlers[h].trace :
        calls.handlers[h].trace[i].name \in {"onRefreshSuccess", "onRefreshFailed"}}

\* C36: a run that handled a live notification on an instance holding both
\* callbacks invoked exactly one of them, once, also when the success callback
\* throws.
C36_ExactlyOneCallback ==
    \A h \in Handlers :
        (LiveRunEnded(h)
         /\ inst.onRefreshSuccess # "none" /\ inst.onRefreshFailed # "none") =>
            Cardinality(CallbacksInvoked(h)) = 1

\* a refreshed access token: one a refresh response carried
Refreshed(token) ==
    token \in {Jwt("eyJleHAiOjEwMH0", 3), Jwt("eyJleHAiOjIwMH0", 4)}

\* C37: once a refreshed access token has been pushed into the viewer, no
\* later push hands it the instance's initial token again.
C37_PushedTokenNeverRegresses ==
    \A i, j \in DOMAIN viewer.pushed :
        (i < j /\ Refreshed(viewer.pushed[i].token)) =>
            viewer.pushed[j].token # Jwt("eyJleHAiOjUwfQ", 1)

-----------------------------------------------------------------------------
(* Properties of slugs declared twice *)

\* the entries of the directory whose module imports
Importable ==
    {i \in DOMAIN pluginsDir.entries :
        /\ EndsWithJs(pluginsDir.entries[i].name)
        /\ pluginsDir.entries[i].module.kind # "throws"}

\* C39: the registry holds one entry per slug, filed under its own slug, and
\* never more entries than the directory has importable modules; after a load
\* the entry of a slug is the manifest of the last listed module declaring it.
C39_LaterModuleWinsSlug ==
    /\ \A s \in DOMAIN registry : registry[s].slug = s
    /\ Cardinality(DOMAIN registry) <= Cardinality(Importable)
    /\ (loadPc = "done" /\ pluginsDir.readable) =>
          \A s \in DOMAIN registry :
              /\ getPlugin(s).modulePath
                    = <<"/plugins/", pluginsDir.entries[LastWith(s)].name>>
              /\ getPlugin(s).tokenRefresh
                    = pluginsDir.entries[LastWith(s)].module.manifest.tokenRefresh

\* two modules declared the slug demo with different tokenRefresh blocks, and
\* the registry holds the second one's manifest only
C39_Witness ==
    /\ loadPc = "done"
    /\ Len(pluginsDir.entries) = 2
    /\ \A i \in {1, 2} :
          /\ pluginsDir.entries[i].module.kind = "manifest"
          /\ pluginsDir.entries[i].module.manifest.slug = "demo"
    /\ pluginsDir.entries[1].module.manifest.tokenRefresh = HostBlock
    /\ pluginsDir.entries[2].module.manifest.tokenRefresh = NoTokenRefresh
    /\ DOMAIN registry = {"demo"}
    /\ registry["demo"].tokenRefresh = NoTokenRefresh
    /\ registry["demo"].modulePath = <<"/plugins/", pluginsDir.entries[2].name>>

=============================================================================
